---- MODULE Spec2Model ----
(***************************************************************************)
(* Model of the order collection of order_entry.py: OrderEntry.from_dict,  *)
(* OrderCollection and its queries.                                        *)
(*                                                                         *)
(* Representation.                                                         *)
(*  - A Python str is a sequence of one-character strings.                 *)
(*  - A decoded JSON value is a tagged record [t, s, n]: t = "str" with    *)
(*    the characters in s, t = "num" with the number in n, t = "null".     *)
(*  - A Python float is a natural number n standing for n/2, kept to       *)
(*    MantBits significant bits with round-half-to-even (IEEE 754 binary64 *)
(*    scaled down from 53 bits).                                           *)
(***************************************************************************)
EXTENDS Integers, Sequences, FiniteSets, TLC

(* ------------------------------ bounds -------------------------------- *)

\* Largest collection the model builds.
MaxOrders == 3

\* Significant bits of the scaled-down float.
MantBits == 4

(* --------------------------- JSON values ------------------------------ *)

Str(s) == [t |-> "str", s |-> s, n |-> 0]

Num(n) == [t |-> "num", s |-> <<>>, n |-> n]

Null == [t |-> "null", s |-> <<>>, n |-> 0]

(* ------------------------- results of calls --------------------------- *)

\* A call that returned value v.
Ok(v) == [ok |-> TRUE, exc |-> "", value |-> v]

\* A call that raised an exception of class e; it has no value.
Raise(e) == [ok |-> FALSE, exc |-> e, value |-> <<>>]

(* --------------------------- characters ------------------------------- *)

Uppers == <<"A","B","C","D","E","F","G","H","I","J","K","L","M",
            "N","O","P","Q","R","S","T","U","V","W","X","Y","Z">>

Lowers == <<"a","b","c","d","e","f","g","h","i","j","k","l","m",
            "n","o","p","q","r","s","t","u","v","w","x","y","z">>

DigitChars == <<"0","1","2","3","4","5","6","7","8","9">>

IsDigit(c) == \E i \in DOMAIN DigitChars : DigitChars[i] = c

DigitVal(c) == (CHOOSE i \in DOMAIN DigitChars : DigitChars[i] = c) - 1

AllDigits(s) == \A i \in DOMAIN s : IsDigit(s[i])

\* Value of a string of decimal digits (0 for the empty string).
RECURSIVE DecVal(_)
DecVal(s) ==
    IF s = <<>> THEN 0
    ELSE 10 * DecVal(SubSeq(s, 1, Len(s) - 1)) + DigitVal(s[Len(s)])

RECURSIVE Pow(_, _)
Pow(b, e) == IF e = 0 THEN 1 ELSE b * Pow(b, e - 1)

\* str.lower() on one character: only cased letters change.
LowerChar(c) ==
    IF \E i \in DOMAIN Uppers : Uppers[i] = c
    THEN Lowers[CHOOSE i \in DOMAIN Uppers : Uppers[i] = c]
    ELSE c

\* str.lower()
StrLower(s) == [i \in DOMAIN s |-> LowerChar(s[i])]

\* Python's `needle in hay` for strings: needle occurs at some offset.
StrContains(needle, hay) ==
    \E i \in 0 .. (Len(hay) - Len(needle)) :
        SubSeq(hay, i + 1, i + Len(needle)) = needle

(* ------------------------------ float --------------------------------- *)

\* Number of low bits a natural number loses to fit MantBits significant bits.
RECURSIVE DropBits(_, _)
DropBits(n, e) == IF n < Pow(2, MantBits + e) THEN e ELSE DropBits(n, e + 1)

\* Nearest representable float, ties to the even significand.
RoundFP(n) ==
    LET e == DropBits(n, 0)
        u == Pow(2, e)
        q == n \div u
        r == n % u
        up == IF 2 * r > u \/ (2 * r = u /\ q % 2 = 1) THEN 1 ELSE 0
    IN  IF e = 0 THEN n ELSE (q + up) * u

\* Float addition: the exact sum, rounded.
FAdd(x, y) == RoundFP(x + y)

\* float(str) for the decimal notation digits[.digits]: the characters the
\* model feeds it are digits, ".", "/" and letters that spell no float.
FloatOfStr(s) ==
    LET dots == {i \in DOMAIN s : s[i] = "."}
        dot  == IF dots = {} THEN Len(s) + 1 ELSE CHOOSE i \in dots : TRUE
        ip   == SubSeq(s, 1, dot - 1)
        fp   == SubSeq(s, dot + 1, Len(s))
        d    == Pow(10, Len(fp))
        x    == 2 * DecVal(fp)
        q    == x \div d
        r    == x % d
        up   == IF 2 * r > d \/ (2 * r = d /\ q % 2 = 1) THEN 1 ELSE 0
    IN  IF \/ Cardinality(dots) > 1
           \/ ~AllDigits(ip) \/ ~AllDigits(fp)
           \/ (ip = <<>> /\ fp = <<>>)
        THEN Raise("ValueError")
        ELSE Ok(RoundFP(2 * DecVal(ip) + q + up))

\* float(x) on a decoded JSON value.
PyFloat(v) ==
    CASE v.t = "num" -> Ok(RoundFP(v.n))
      [] v.t = "str" -> FloatOfStr(v.s)
      [] OTHER       -> Raise("TypeError")

(* ------------------------ datetime.strptime --------------------------- *)

IsLeap(y) == (y % 4 = 0 /\ y % 100 # 0) \/ y % 400 = 0

DaysInMonth(y, m) ==
    CASE m \in {4, 6, 9, 11} -> 30
      [] m = 2 -> IF IsLeap(y) THEN 29 ELSE 28
      [] OTHER -> 31

\* %m : 1[0-2] | 0[1-9] | [1-9]
MonthField(p) == Len(p) \in {1, 2} /\ AllDigits(p) /\ DecVal(p) \in 1 .. 12

\* %d : 3[01] | [12]\d | 0[1-9] | [1-9] | " "[1-9]
DayField(p) ==
    \/ Len(p) \in {1, 2} /\ AllDigits(p) /\ DecVal(p) \in 1 .. 31
    \/ Len(p) = 2 /\ p[1] = " " /\ IsDigit(p[2]) /\ p[2] # "0"

\* %Y : \d\d\d\d
YearField(p) == Len(p) = 4 /\ AllDigits(p)

DayVal(p) == IF p[1] = " " THEN DigitVal(p[2]) ELSE DecVal(p)

\* datetime.strptime(v, "%m/%d/%Y"): the whole string must be
\* month "/" day "/" year, and the date must exist (year >= 1).
Strptime(v) ==
    IF v.t # "str" THEN Raise("TypeError")
    ELSE
    LET s  == v.s
        sl == {i \in DOMAIN s : s[i] = "/"}
    IN  IF Cardinality(sl) # 2 THEN Raise("ValueError")
        ELSE
        LET i1 == CHOOSE i \in sl : \A j \in sl : i <= j
            i2 == CHOOSE i \in sl : \A j \in sl : j <= i
            mp == SubSeq(s, 1, i1 - 1)
            dp == SubSeq(s, i1 + 1, i2 - 1)
            yp == SubSeq(s, i2 + 1, Len(s))
        IN  IF ~(MonthField(mp) /\ DayField(dp) /\ YearField(yp))
            THEN Raise("ValueError")
            ELSE
            LET y == DecVal(yp)
                m == DecVal(mp)
                d == DayVal(dp)
            IN  IF y < 1 \/ d > DaysInMonth(y, m)
                THEN Raise("ValueError")
                ELSE Ok(<<y, m, d>>)

\* datetime comparison a <= b: year, then month, then day.
DateLE(a, b) ==
    \/ a[1] < b[1]
    \/ a[1] = b[1] /\ a[2] < b[2]
    \/ a[1] = b[1] /\ a[2] = b[2] /\ a[3] <= b[3]

(* ------------------------- OrderEntry.from_dict ----------------------- *)

\* A decoded JSON array element: obj is TRUE for a JSON object, whose
\* key/value pairs are the function m; FALSE for anything else.
Object(m) == [obj |-> TRUE, m |-> m]

NotObject == [obj |-> FALSE, m |-> <<>>]

\* dict.get(key, default)
Get(m, key, default) == IF key \in DOMAIN m THEN m[key] ELSE default

\* OrderEntry.__init__: the eight fields, stored as given.
OrderEntry(order_number, asin, product_name, order_type, order_date, shipped_date, cancelled_date, estimated_tax_value) ==
    [order_number        |-> order_number,
     asin                |-> asin,
     product_name        |-> product_name,
     order_type          |-> order_type,
     order_date          |-> order_date,
     shipped_date        |-> shipped_date,
     cancelled_date      |-> cancelled_date,
     estimated_tax_value |-> estimated_tax_value]

\* from_dict with "" as the default of every string-valued key,
\* "Cancelled Date" included.
FromDictEmptyDefault(data) ==
    IF ~data.obj THEN Raise("AttributeError")
    ELSE
    LET tax == PyFloat(Get(data.m, "Estimated Tax Value", Num(0)))
    IN  IF ~tax.ok
        THEN Raise(tax.exc)
        ELSE Ok(OrderEntry(Get(data.m, "Order Number", Str(<<>>)),
                           Get(data.m, "ASIN", Str(<<>>)),
                           Get(data.m, "Product Name", Str(<<>>)),
                           Get(data.m, "Order Type", Str(<<>>)),
                           Get(data.m, "Order Date", Str(<<>>)),
                           Get(data.m, "Shipped Date", Str(<<>>)),
                           Get(data.m, "Cancelled Date", Str(<<>>)),
                           tax.value))

\* OrderEntry.from_dict(data)
from_dict(data) ==
    IF ~data.obj THEN Raise("AttributeError")
    ELSE
    LET tax == PyFloat(Get(data.m, "Estimated Tax Value", Num(0)))
    IN  IF ~tax.ok
        THEN Raise(tax.exc)
        ELSE Ok(OrderEntry(Get(data.m, "Order Number", Str(<<>>)),
                           Get(data.m, "ASIN", Str(<<>>)),
                           Get(data.m, "Product Name", Str(<<>>)),
                           Get(data.m, "Order Type", Str(<<>>)),
                           Get(data.m, "Order Date", Str(<<>>)),
                           Get(data.m, "Shipped Date", Str(<<>>)),
                           Get(data.m, "Cancelled Date", Null),
                           tax.value))

(* --------------------------- OrderCollection -------------------------- *)

\* search_by_product_keyword: the comprehension over self.orders.
RECURSIVE SearchScan(_, _)
SearchScan(os, keyword_lower) ==
    IF os = <<>> THEN <<>>
    ELSE IF StrContains(keyword_lower, StrLower(Head(os).product_name.s))
         THEN <<Head(os)>> \o SearchScan(Tail(os), keyword_lower)
         ELSE SearchScan(Tail(os), keyword_lower)

\* The keyword compared as typed.
KeywordAsTyped(keyword) == keyword

\* The keyword as the search compares it.
KeywordLower(keyword) == StrLower(keyword)

search_by_product_keyword(os, keyword) ==
    SearchScan(os, KeywordLower(keyword))

\* add_order
add_order(os, order) == Append(os, order)

\* remove_order that deletes the first match only (list.remove).
RECURSIVE RemoveFirst(_, _)
RemoveFirst(os, order_number) ==
    IF os = <<>> THEN <<>>
    ELSE IF Head(os).order_number # order_number
         THEN <<Head(os)>> \o RemoveFirst(Tail(os), order_number)
         ELSE Tail(os)

\* remove_order: the comprehension keeping the orders with another number.
RECURSIVE remove_order(_, _)
remove_order(os, order_number) ==
    IF os = <<>> THEN <<>>
    ELSE IF Head(os).order_number # order_number
         THEN <<Head(os)>> \o remove_order(Tail(os), order_number)
         ELSE remove_order(Tail(os), order_number)

\* get_order_by_number that keeps scanning: the last match, or None.
RECURSIVE GetLastMatch(_, _)
GetLastMatch(os, order_number) ==
    IF os = <<>> THEN [found |-> FALSE, order |-> <<>>]
    ELSE IF os[Len(os)].order_number = order_number
         THEN [found |-> TRUE, order |-> os[Len(os)]]
         ELSE GetLastMatch(SubSeq(os, 1, Len(os) - 1), order_number)

\* get_order_by_number: the first match, or None.
RECURSIVE get_order_by_number(_, _)
get_order_by_number(os, order_number) ==
    IF os = <<>> THEN [found |-> FALSE, order |-> <<>>]
    ELSE IF Head(os).order_number = order_number
         THEN [found |-> TRUE, order |-> Head(os)]
         ELSE get_order_by_number(Tail(os), order_number)

\* sum(): left to right from 0, each addition rounded.
RECURSIVE SumFrom(_, _)
SumFrom(acc, os) ==
    IF os = <<>> THEN acc
    ELSE SumFrom(FAdd(acc, Head(os).estimated_tax_value), Tail(os))

\* The argument of total_costs: None (the default) or a list.
NoneArg == [given |-> FALSE, list |-> <<>>]

ListArg(l) == [given |-> TRUE, list |-> l]

\* `not orders`: true of None and of an empty list.
IsFalsyArg(arg) == ~arg.given \/ arg.list = <<>>

\* `orders is None`
IsNoneArg(arg) == ~arg.given

\* total_costs
total_costs(os, arg) ==
    IF IsNoneArg(arg) THEN SumFrom(0, os) ELSE SumFrom(0, arg.list)

\* InRange with the end bound left out (`<` for `<=`).
InRangeExclusive(d, start, end) == DateLE(start, d) /\ ~DateLE(end, d)

\* The range test of the three date queries (the chained comparison of the
\* comprehension): start <= date and date <= end.
InRange(d, start, end) == DateLE(start, d) /\ DateLE(d, end)

\* `order.cancelled_date is not None`
IsCancelled(order) == order.cancelled_date.t # "null"

\* Keeps with `order.cancelled_date` tested for truth in cancelled_orders:
\* an empty string counts as not cancelled there.
KeepsTruthy(mode, order) ==
    CASE mode = "cancelled"    ->
            order.cancelled_date.t # "null" /\ order.cancelled_date.s # <<>>
      [] mode = "noncancelled" -> order.cancelled_date.t = "null"
      [] OTHER                 -> TRUE

\* The third conjunct of each comprehension.
Keeps(mode, order) ==
    CASE mode = "cancelled"    -> IsCancelled(order)
      [] mode = "noncancelled" -> ~IsCancelled(order)
      [] OTHER                 -> TRUE

\* RangeScan with the order's other conditions tested before its date is
\* parsed: an order the query would drop anyway is skipped unparsed.
RECURSIVE RangeScanLazy(_, _, _, _)
RangeScanLazy(os, start, end, mode) ==
    IF os = <<>> THEN Ok(<<>>)
    ELSE IF ~Keeps(mode, Head(os))
    THEN RangeScanLazy(Tail(os), start, end, mode)
    ELSE
    LET d == Strptime(Head(os).order_date)
    IN  IF ~d.ok THEN Raise(d.exc)
        ELSE
        LET rest == RangeScanLazy(Tail(os), start, end, mode)
        IN  IF ~rest.ok THEN rest
            ELSE IF InRange(d.value, start, end)
                 THEN Ok(<<Head(os)>> \o rest.value)
                 ELSE rest

\* The comprehension of a date query: every order's order_date is parsed,
\* in order, before it is tested; the first parse error ends the call.
RECURSIVE RangeScan(_, _, _, _)
RangeScan(os, start, end, mode) ==
    IF os = <<>> THEN Ok(<<>>)
    ELSE
    LET d == Strptime(Head(os).order_date)
    IN  IF ~d.ok THEN Raise(d.exc)
        ELSE
        LET rest == RangeScan(Tail(os), start, end, mode)
        IN  IF ~rest.ok THEN rest
            ELSE IF InRange(d.value, start, end) /\ Keeps(mode, Head(os))
                 THEN Ok(<<Head(os)>> \o rest.value)
                 ELSE rest

\* The common body of the date queries: both bounds are parsed first.
RangeQuery(os, start_date, end_date, mode) ==
    LET start == Strptime(start_date)
        end   == Strptime(end_date)
    IN  IF ~start.ok THEN Raise(start.exc)
        ELSE IF ~end.ok THEN Raise(end.exc)
        ELSE RangeScan(os, start.value, end.value, mode)

filter_orders_by_date(os, start_date, end_date) ==
    RangeQuery(os, start_date, end_date, "all")

cancelled_orders(os, start_date, end_date) ==
    RangeQuery(os, start_date, end_date, "cancelled")

noncancelled_orders(os, start_date, end_date) ==
    RangeQuery(os, start_date, end_date, "noncancelled")

\* LoadLoop with the try inside the loop: a malformed entry is skipped and
\* the entries after it are still added.
RECURSIVE LoadLoopSkip(_, _)
LoadLoopSkip(os, data) ==
    IF data = <<>> THEN [orders |-> os, exc |-> ""]
    ELSE
    LET r == from_dict(Head(data))
        rest == LoadLoopSkip(IF r.ok THEN add_order(os, r.value) ELSE os,
                             Tail(data))
    IN  [orders |-> rest.orders,
         exc |-> IF r.ok THEN rest.exc ELSE r.exc]

\* The loop of load_orders_from_file: each entry is built and added in
\* turn; the first exception leaves the loop with what was added so far.
RECURSIVE LoadLoop(_, _)
LoadLoop(os, data) ==
    IF data = <<>> THEN [orders |-> os, exc |-> ""]
    ELSE
    LET r == from_dict(Head(data))
    IN  IF ~r.ok THEN [orders |-> os, exc |-> r.exc]
        ELSE LoadLoop(add_order(os, r.value), Tail(data))

\* What the file named by a load holds.
MissingFile == [kind |-> "missing", data |-> <<>>]

BadJson == [kind |-> "undecodable", data |-> <<>>]

JsonNumber == [kind |-> "number", data |-> <<>>]

JsonArray(data) == [kind |-> "array", data |-> data]

\* The try block: open, json.load, the loop.
LoadBody(os, src) ==
    CASE src.kind = "missing"     -> [orders |-> os, exc |-> "FileNotFoundError"]
      [] src.kind = "undecodable" -> [orders |-> os, exc |-> "JSONDecodeError"]
      [] src.kind = "number"      -> [orders |-> os, exc |-> "TypeError"]
      [] OTHER                    -> LoadLoop(os, src.data)

\* The classes the last handler, `except Exception`, catches.
IsException(exc) ==
    exc \in {"FileNotFoundError", "JSONDecodeError", "ValueError",
             "TypeError", "AttributeError"}

\* load_orders_from_file: the collection afterwards, the message printed
\* and the exception that leaves the call ("" when none does).
load_orders_from_file(os, src) ==
    LET b == LoadBody(os, src)
    IN  [orders |-> b.orders,
         report |-> CASE b.exc = ""                  -> "loaded"
                      [] b.exc = "FileNotFoundError" -> "no file"
                      [] b.exc = "JSONDecodeError"   -> "decode error"
                      [] IsException(b.exc)          -> "error"
                      [] OTHER                       -> "",
         raised |-> IF b.exc = "" \/ b.exc = "FileNotFoundError"
                       \/ b.exc = "JSONDecodeError" \/ IsException(b.exc)
                    THEN "" ELSE b.exc]

(* ------------------------------ inputs -------------------------------- *)

\* Date strings.
Jan15 == Str(<<"0", "1", "/", "1", "5", "/", "2", "0", "2", "4">>)

Dec31 == Str(<<"1", "2", "/", "3", "1", "/", "2", "0", "2", "3">>)

Jan5 == Str(<<"1", "/", "5", "/", "2", "0", "2", "4">>)

Feb30 == Str(<<"0", "2", "/", "3", "0", "/", "2", "0", "2", "4">>)

DayFirst == Str(<<"1", "3", "/", "0", "1", "/", "2", "0", "2", "4">>)

Empty == Str(<<>>)

\* Order numbers.
NumA == Str(<<"A">>)

NumB == Str(<<"B">>)

NumC == Str(<<"C">>)

\* Product names and tax values.
EchoDot == Str(<<"E", "c", "h", "o", " ", "D", "o", "t">>)

Tax250 == Str(<<"2", ".", "5", "0">>)

TaxNA == Str(<<"N", "/", "A">>)

\* The JSON objects of the input files.
EntryEcho ==
    Object(("Order Number" :> NumA) @@ ("Product Name" :> EchoDot)
           @@ ("Order Date" :> Jan15) @@ ("Estimated Tax Value" :> Tax250))

EntryDup ==
    Object(("Order Number" :> NumA) @@ ("Product Name" :> Str(<<"e", "c", "h", "o">>))
           @@ ("Order Date" :> Dec31) @@ ("Cancelled Date" :> Empty)
           @@ ("Estimated Tax Value" :> Num(16)))

EntryB ==
    Object(("Order Number" :> NumB) @@ ("Order Date" :> Jan5)
           @@ ("Cancelled Date" :> Jan15)
           @@ ("Estimated Tax Value" :> Num(1)))

EntryNoDate ==
    Object(("Order Number" :> NumB) @@ ("Product Name" :> Str(<<"D", "o", "t">>))
           @@ ("Cancelled Date" :> Null)
           @@ ("Estimated Tax Value" :> Str(<<"1">>)))

EntryBadDate ==
    Object(("Product Name" :> Str(<<"E", "C", "H", "O">>)) @@ ("Order Date" :> Feb30)
           @@ ("Cancelled Date" :> Jan15))

EntryNA ==
    Object(("Order Number" :> NumB) @@ ("Estimated Tax Value" :> TaxNA))

EntryNullTax ==
    Object(("Order Number" :> NumB) @@ ("Estimated Tax Value" :> Null))

GoodEntries == {EntryEcho, EntryDup, EntryB, EntryNoDate, EntryBadDate}

\* The records add_order is given: the ones from_dict builds.
Records == {from_dict(e).value : e \in GoodEntries}

\* What the files read by load_orders_from_file hold.
Sources ==
    {MissingFile, BadJson, JsonNumber,
     JsonArray(<<>>),
     JsonArray(<<EntryB>>),
     JsonArray(<<EntryEcho, EntryDup>>),
     JsonArray(<<EntryNA>>),
     JsonArray(<<EntryB, EntryNA>>),
     JsonArray(<<EntryNullTax, EntryB>>),
     JsonArray(<<EntryB, NotObject, EntryEcho>>),
     JsonArray(<<EntryEcho, EntryB, EntryNA>>)}

\* The bounds of the date queries.
BoundStrs == {Dec31, Jan15, DayFirst}

\* The keywords searched for.
Keywords ==
    {<<>>, <<"E", "c", "h", "o">>, <<"E", "C", "H", "O">>, <<"o", " ", "d">>, <<"d", "o", "t", "s">>}

\* The order numbers looked up and removed.
OrderNumbers == {NumA, NumB, NumC, Empty}

\* The mappings from_dict is tried on: every combination of a value, or
\* none, for each key.
Absent == [t |-> "absent", s |-> <<>>, n |-> 0]

TaxOpts == {Absent, Num(1), Num(15), Tax250, Str(<<"1">>), TaxNA, Empty, Null}

CancelledOpts == {Absent, Null, Empty, Jan15}

NumberOpts == {Absent, NumA}

DateOpts == {Absent, Jan15}

NameOpts == {Absent, EchoDot}

\* The JSON object holding the keys that are given a value.
Mapping(number, name, date, cancelled, tax) ==
    LET all == ("Order Number" :> number) @@ ("ASIN" :> name)
               @@ ("Product Name" :> name) @@ ("Order Type" :> name)
               @@ ("Order Date" :> date) @@ ("Shipped Date" :> date)
               @@ ("Cancelled Date" :> cancelled)
               @@ ("Estimated Tax Value" :> tax)
    IN  Object([k \in {x \in DOMAIN all : all[x] # Absent} |-> all[k]])

Entries ==
    {Mapping(number, name, date, cancelled, tax) :
        number \in NumberOpts, name \in NameOpts, date \in DateOpts,
        cancelled \in CancelledOpts, tax \in TaxOpts}
    \cup {NotObject}

(* --------------------------- state machine ---------------------------- *)

\* orders: OrderCollection.orders.
\* last:   the last call made: its name, its arguments, self.orders when
\*         it was made and what it gave back to the caller.
VARIABLES orders, last

vars == <<orders, last>>

Call(op, a1, a2, res) ==
    [op |-> op, a1 |-> a1, a2 |-> a2, before |-> orders, res |-> res]

\* OrderCollection(): an empty collection.
Init ==
    /\ orders = <<>>
    /\ last = [op |-> "init", a1 |-> <<>>, a2 |-> <<>>, before |-> <<>>,
               res |-> <<>>]

FromDict(e) ==
    /\ last' = Call("from_dict", e, <<>>, from_dict(e))
    /\ UNCHANGED orders

AddOrder(r) ==
    /\ Len(orders) < MaxOrders
    /\ orders' = add_order(orders, r)
    /\ last' = Call("add_order", r, <<>>, <<>>)

RemoveOrder(x) ==
    /\ orders' = remove_order(orders, x)
    /\ last' = Call("remove_order", x, <<>>, <<>>)

GetOrderByNumber(x) ==
    /\ last' = Call("get_order_by_number", x, <<>>,
                    get_order_by_number(orders, x))
    /\ UNCHANGED orders

TotalCosts(arg) ==
    /\ last' = Call("total_costs", arg, <<>>, total_costs(orders, arg))
    /\ UNCHANGED orders

LoadOrdersFromFile(src) ==
    LET r == load_orders_from_file(orders, src)
    IN  /\ Len(r.orders) <= MaxOrders
        /\ orders' = r.orders
        /\ last' = Call("load_orders_from_file", src, <<>>,
                        [report |-> r.report, raised |-> r.raised])

FilterOrdersByDate(s, e) ==
    /\ last' = Call("filter_orders_by_date", s, e,
                    filter_orders_by_date(orders, s, e))
    /\ UNCHANGED orders

CancelledOrders(s, e) ==
    /\ last' = Call("cancelled_orders", s, e, cancelled_orders(orders, s, e))
    /\ UNCHANGED orders

NoncancelledOrders(s, e) ==
    /\ last' = Call("noncancelled_orders", s, e,
                    noncancelled_orders(orders, s, e))
    /\ UNCHANGED orders

SearchByProductKeyword(k) ==
    /\ last' = Call("search_by_product_keyword", k, <<>>,
                    search_by_product_keyword(orders, k))
    /\ UNCHANGED orders

\* The lists a caller passes to total_costs: slices of the collection.
Slices ==
    {SubSeq(orders, i, j) : i \in 1 .. Len(orders) + 1, j \in 0 .. Len(orders)}

\* The operations that change the collection.
Mutate ==
    \/ \E r \in Records : AddOrder(r)
    \/ \E x \in OrderNumbers : RemoveOrder(x)
    \/ \E src \in Sources : LoadOrdersFromFile(src)

\* Storage: insertion, removal, loading and lookup by number.
Next ==
    \/ Mutate
    \/ \E x \in OrderNumbers : GetOrderByNumber(x)

Spec == Init /\ [][Next]_vars

\* Record construction on its own.
NextRecord == \E e \in Entries : FromDict(e)

SpecRecord == Init /\ [][NextRecord]_vars

\* The date queries on the collections the mutators build.
NextRange ==
    \/ Mutate
    \/ \E s, e \in BoundStrs : FilterOrdersByDate(s, e)
    \/ \E s, e \in BoundStrs : CancelledOrders(s, e)
    \/ \E s, e \in BoundStrs : NoncancelledOrders(s, e)

SpecRange == Init /\ [][NextRange]_vars

\* Keyword search and totals on the collections the mutators build.
NextQuery ==
    \/ Mutate
    \/ \E k \in Keywords : SearchByProductKeyword(k)
    \/ \E arg \in {NoneArg} \cup {ListArg(l) : l \in Slices} : TotalCosts(arg)

SpecQuery == Init /\ [][NextQuery]_vars

(* ------------------------------ claims -------------------------------- *)

\* The set of the elements of a sequence.
Range(q) == {q[i] : i \in DOMAIN q}

\* The date strings that are no MM/DD/YYYY date: the empty string, a day
\* the month does not have, a month that does not exist.
Malformed == {Empty, Feb30, DayFirst}

\* A date's place in the calendar.
Ordinal(d) == d[1] * 10000 + d[2] * 100 + d[3]

DateOf(order) == Strptime(order.order_date).value

RangeOps == {"filter_orders_by_date", "cancelled_orders", "noncancelled_orders"}

\* The subsequence of os whose order dates lie between the bounds s and e
\* in the calendar, bounds included.
Between(os, s, e) ==
    LET lo == Ordinal(Strptime(s).value)
        hi == Ordinal(Strptime(e).value)
        In(o) == lo <= Ordinal(DateOf(o)) /\ Ordinal(DateOf(o)) <= hi
    IN  SelectSeq(os, In)

\* C1: when every stored order_date parses, for all valid bounds the
\* cancelled and the non-cancelled orders in range share no record, and
\* together they are exactly the orders in range, each once.
C1_Partition ==
    (\A i \in DOMAIN orders : orders[i].order_date \notin Malformed) =>
        \A s, e \in BoundStrs \ Malformed :
            LET f == filter_orders_by_date(orders, s, e)
                c == cancelled_orders(orders, s, e)
                n == noncancelled_orders(orders, s, e)
            IN  /\ f.ok /\ c.ok /\ n.ok
                /\ Range(c.value) \cap Range(n.value) = {}
                /\ Range(c.value) \cup Range(n.value) = Range(f.value)
                /\ Len(c.value) + Len(n.value) = Len(f.value)

\* C1 witness: a cancelled-orders query whose range holds an order with no
\* cancelled date, one with an empty one and one with a date.
C1_Witness ==
    /\ last.op = "cancelled_orders"
    /\ last.res.ok
    /\ Len(last.res.value) >= 2
    /\ \E i, j, k \in DOMAIN orders :
        /\ orders[i].cancelled_date = Null
        /\ orders[j].cancelled_date = Empty
        /\ orders[k].cancelled_date = Jan15
        /\ {orders[i], orders[j], orders[k]}
              \subseteq Range(filter_orders_by_date(orders, last.a1, last.a2).value)

\* C4: on a collection whose order dates all parse and with valid bounds,
\* filter_by_date_range returns exactly the orders dated between the
\* bounds in the calendar, bounds included, in collection order; it is
\* empty, with no error, when start is later than end.
C4_DateRange ==
    ( /\ last.op = "filter_orders_by_date"
      /\ last.a1 \notin Malformed /\ last.a2 \notin Malformed
      /\ \A i \in DOMAIN orders : orders[i].order_date \notin Malformed ) =>
        /\ last.res = Ok(Between(orders, last.a1, last.a2))
        /\ Ordinal(Strptime(last.a1).value) > Ordinal(Strptime(last.a2).value)
              => last.res = Ok(<<>>)

\* C4 witness: a range that starts and ends on one order's date, later in
\* the string order than the date of another stored order it leaves out.
C4_Witness ==
    /\ last.op = "filter_orders_by_date"
    /\ last.a1 = Jan15 /\ last.a2 = Jan15
    /\ last.res.ok
    /\ Len(last.res.value) = 1
    /\ \E i \in DOMAIN orders : orders[i].order_date = Dec31
    /\ \E i \in DOMAIN orders : orders[i].order_date = Jan5

\* C6: each date query raises a date-format error (ValueError), returning
\* nothing and leaving the collection as it was, whenever a bound or any
\* stored order_date is malformed.
C6_DateFormatError ==
    ( /\ last.op \in RangeOps
      /\ \/ last.a1 \in Malformed
         \/ last.a2 \in Malformed
         \/ \E i \in DOMAIN last.before :
                last.before[i].order_date \in Malformed ) =>
        /\ last.res = Raise("ValueError")
        /\ orders = last.before

\* C6 witness: a cancelled-orders query with valid bounds fails on a
\* collection that holds orders in range and one non-cancelled order with
\* a malformed date.
C6_Witness ==
    /\ last.op = "cancelled_orders"
    /\ last.a1 = Dec31 /\ last.a2 = Jan15
    /\ ~last.res.ok
    /\ \E i \in DOMAIN orders :
        orders[i].order_date = Empty /\ orders[i].cancelled_date = Null
    /\ \E i \in DOMAIN orders :
        orders[i].order_date = Jan5 /\ orders[i].cancelled_date = Jan15

\* The first stored order with order number k, by position.
FirstWith(os, k) ==
    LET idx == {i \in DOMAIN os : os[i].order_number = k}
    IN  IF idx = {} THEN [found |-> FALSE, order |-> <<>>]
        ELSE [found |-> TRUE,
              order |-> os[CHOOSE i \in idx : \A j \in idx : i <= j]]

\* C2 as stated: after add(r), get_by_number(r.order_number) returns r
\* whatever the collection held before, and a number no stored order has
\* gives absent.
C2_AddedIsReturned ==
    /\ last.op = "add_order" =>
          get_order_by_number(orders, last.a1.order_number)
              = [found |-> TRUE, order |-> last.a1]
    /\ \A k \in OrderNumbers :
          (\A i \in DOMAIN orders : orders[i].order_number # k)
              => ~get_order_by_number(orders, k).found

\* C2 amended: get_by_number(k) returns the first stored order numbered k,
\* so after add(r) it returns r when no order stored before r has r's
\* number; a number no stored order has gives absent.
C2_FirstMatch ==
    /\ last.op = "get_order_by_number" =>
          last.res = FirstWith(orders, last.a1)
    /\ ( /\ last.op = "add_order"
         /\ \A i \in DOMAIN last.before :
                last.before[i].order_number # last.a1.order_number ) =>
          get_order_by_number(orders, last.a1.order_number)
              = [found |-> TRUE, order |-> last.a1]
    /\ \A k \in OrderNumbers :
          (\A i \in DOMAIN orders : orders[i].order_number # k)
              => ~get_order_by_number(orders, k).found

\* C2 witness: a lookup finds the first of two different stored orders
\* with the number asked for.
C2_Witness ==
    /\ last.op = "get_order_by_number"
    /\ last.res.found
    /\ \E i, j \in DOMAIN orders :
        /\ i < j
        /\ orders[i].order_number = last.a1
        /\ orders[j].order_number = last.a1
        /\ orders[i] # orders[j]
        /\ last.res.order = orders[i]

\* Whether a load inserted an order numbered k.
Loaded(k) ==
    /\ last.op = "load_orders_from_file"
    /\ \E i \in DOMAIN orders :
        i > Len(last.before) /\ orders[i].order_number = k

\* C3: right after remove(x), get_by_number(x) returns absent, and a
\* number that get_by_number did not find before a call is found after it
\* only when the call is an add or a load inserting an order with it.
C3_RemovedStaysAbsent ==
    /\ last.op = "remove_order" => ~get_order_by_number(orders, last.a1).found
    /\ \A k \in OrderNumbers :
          ( /\ ~get_order_by_number(last.before, k).found
            /\ get_order_by_number(orders, k).found ) =>
              \/ last.op = "add_order" /\ last.a1.order_number = k
              \/ Loaded(k)

\* C3 witness: a remove of a number that several stored orders had, with
\* other orders left.
C3_Witness ==
    /\ last.op = "remove_order"
    /\ Cardinality({i \in DOMAIN last.before :
                       last.before[i].order_number = last.a1}) >= 2
    /\ orders # <<>>

\* The entries from which no record can be built.
Unbuildable == {EntryNA, EntryNullTax, NotObject}

\* The records of the entries of data before position k.
Built(data, k) == [i \in 1 .. (k - 1) |-> from_dict(data[i]).value]

\* The position of the first unbuildable entry of data, or one past its
\* end.
FirstBad(data) ==
    LET bad == {i \in DOMAIN data : data[i] \in Unbuildable}
    IN  IF bad = {} THEN Len(data) + 1
        ELSE CHOOSE i \in bad : \A j \in bad : i <= j

\* C5: no exception leaves load; a load of a missing or undecodable file
\* adds nothing, and a load that meets a malformed entry adds the records
\* of the entries before the first malformed one, in input order, and
\* nothing else.
C5_LoadFailure ==
    last.op = "load_orders_from_file" =>
        /\ last.res.raised = ""
        /\ last.a1.kind # "array" =>
              last.res.report # "loaded" /\ orders = last.before
        /\ last.a1.kind = "array" =>
              /\ orders = last.before
                            \o Built(last.a1.data, FirstBad(last.a1.data))
              /\ last.res.report = "loaded"
                    <=> FirstBad(last.a1.data) > Len(last.a1.data)

\* C5 witness: a load stopped by its second entry, after which another
\* entry follows; the first entry's record stays.
C5_Witness ==
    /\ last.op = "load_orders_from_file"
    /\ last.a1 = JsonArray(<<EntryB, NotObject, EntryEcho>>)
    /\ last.res.report = "error"
    /\ last.before # <<>>
    /\ Len(orders) = Len(last.before) + 1

\* C10: add(r) appends r and changes nothing else; remove(x) deletes every
\* order numbered x and keeps the others in order (all of them when none is
\* numbered x); a successful load appends its entries' records in input
\* order; a lookup changes nothing.
C10_Frame ==
    /\ last.op = "add_order" => orders = last.before \o <<last.a1>>
    /\ last.op = "remove_order" =>
          LET Other(o) == o.order_number # last.a1
          IN  /\ orders = SelectSeq(last.before, Other)
              /\ (\A i \in DOMAIN last.before : Other(last.before[i]))
                    => orders = last.before
    /\ (last.op = "load_orders_from_file" /\ last.res.report = "loaded") =>
          orders = last.before
                     \o Built(last.a1.data, Len(last.a1.data) + 1)
    /\ last.op = "get_order_by_number" => orders = last.before

\* C10 witness: a remove deleted two orders with the number given, from
\* around an order with another number, which stays.
C10_Witness ==
    /\ last.op = "remove_order"
    /\ Len(last.before) = 3
    /\ last.before[1].order_number = last.a1
    /\ last.before[2].order_number # last.a1
    /\ last.before[3].order_number = last.a1
    /\ orders = <<last.before[2]>>

\* Whether k occurs in name as a run of characters, letter case aside.
OccursIn(k, name) ==
    \E off \in 0 .. (Len(name) - Len(k)) :
        \A j \in DOMAIN k : LowerChar(name[off + j]) = LowerChar(k[j])

\* k with the case of every letter swapped.
SwapCase(k) ==
    [i \in DOMAIN k |->
        IF \E u \in DOMAIN Uppers : Uppers[u] = k[i]
        THEN Lowers[CHOOSE u \in DOMAIN Uppers : Uppers[u] = k[i]]
        ELSE IF \E l \in DOMAIN Lowers : Lowers[l] = k[i]
        THEN Uppers[CHOOSE l \in DOMAIN Lowers : Lowers[l] = k[i]]
        ELSE k[i]]

\* C7: search_by_keyword(k) returns, in collection order, exactly the
\* orders whose product name holds k as a run of characters with letter
\* case ignored; swapping the case of k changes nothing, and the empty
\* keyword returns the whole collection.
C7_Search ==
    last.op = "search_by_product_keyword" =>
        LET Match(o) == OccursIn(last.a1, o.product_name.s)
        IN  /\ last.res = SelectSeq(orders, Match)
            /\ last.res = search_by_product_keyword(orders, SwapCase(last.a1))
            /\ last.a1 = <<>> => last.res = orders

\* C7 witness: a search for "ECHO" finds "Echo Dot" and "echo" and leaves
\* out an order with an empty product name.
C7_Witness ==
    /\ last.op = "search_by_product_keyword"
    /\ last.a1 = <<"E", "C", "H", "O">>
    /\ Len(last.res) = 2
    /\ \E i \in DOMAIN last.res : last.res[i].product_name = EchoDot
    /\ \E i \in DOMAIN orders : orders[i].product_name = Empty

\* The left-to-right float sum of the tax values of os.
FloatSum(os) ==
    LET acc[i \in 0 .. Len(os)] ==
            IF i = 0 THEN 0
            ELSE RoundFP(acc[i - 1] + os[i].estimated_tax_value)
    IN  acc[Len(os)]

\* C8 as stated: total_cost is the sum over the list given, or over the
\* collection when none is; an empty list gives 0; and the total of any
\* two lists joined is the sum of their totals.
C8_Additive ==
    /\ last.op = "total_costs" =>
          last.res = FloatSum(IF last.a1.given THEN last.a1.list ELSE orders)
    /\ \A i \in 0 .. Len(orders) :
          total_costs(orders, ListArg(orders))
              = FAdd(total_costs(orders, ListArg(SubSeq(orders, 1, i))),
                     total_costs(orders,
                                 ListArg(SubSeq(orders, i + 1, Len(orders)))))

\* C8 amended: total_cost is the float sum, taken left to right, over the
\* list given, or over the collection when none is; an empty list gives 0
\* even on a non-empty collection; the total of two one-record lists
\* joined, or of a list joined to an empty one, is the sum of their totals.
C8_Total ==
    /\ last.op = "total_costs" =>
          /\ last.res
                = FloatSum(IF last.a1.given THEN last.a1.list ELSE orders)
          /\ (last.a1.given /\ last.a1.list = <<>>) => last.res = 0
    /\ orders = <<>> => total_costs(orders, NoneArg) = 0
    /\ \A i, j \in DOMAIN orders :
          total_costs(orders, ListArg(<<orders[i], orders[j]>>))
              = FAdd(total_costs(orders, ListArg(<<orders[i]>>)),
                     total_costs(orders, ListArg(<<orders[j]>>)))
    /\ total_costs(orders, ListArg(orders \o <<>>))
          = FAdd(total_costs(orders, ListArg(orders)),
                 total_costs(orders, ListArg(<<>>)))

\* C8 witness: the total of an explicitly empty list is asked for on a
\* collection whose own total is not 0.
C8_Witness ==
    /\ last.op = "total_costs"
    /\ last.a1 = ListArg(<<>>)
    /\ last.res = 0
    /\ total_costs(orders, NoneArg) > 0

\* The value of a key of a mapping, Absent when the mapping lacks it.
Given(e, key) == IF key \in DOMAIN e.m THEN e.m[key] ELSE Absent

\* The tax values that are numbers or spell one, with the float each
\* stands for (in halves): 1 -> 0.5, 15 -> 7.5, "2.50" -> 2.5, "1" -> 1.0.
NumericLike == {Num(1), Num(15), Tax250, Str(<<"1">>)}

NumberOf(v) ==
    CASE v = Num(1)        -> 1
      [] v = Num(15)       -> 15
      [] v = Tax250        -> 5
      [] v = Str(<<"1">>)  -> 2

StringKeys ==
    {"Order Number", "ASIN", "Product Name", "Order Type", "Order Date",
     "Shipped Date"}

\* The record field a key fills.
Field(r, key) ==
    CASE key = "Order Number"   -> r.order_number
      [] key = "ASIN"           -> r.asin
      [] key = "Product Name"   -> r.product_name
      [] key = "Order Type"     -> r.order_type
      [] key = "Order Date"     -> r.order_date
      [] key = "Shipped Date"   -> r.shipped_date
      [] key = "Cancelled Date" -> r.cancelled_date

\* What construction gives when it succeeds: each field is the value of
\* its key, or its default when the key is missing.
BuildsRecord(e, r) ==
    /\ r.ok
    /\ \A key \in StringKeys :
          Field(r.value, key)
              = IF Given(e, key) = Absent THEN Empty ELSE Given(e, key)
    /\ r.value.cancelled_date
          = IF Given(e, "Cancelled Date") = Absent THEN Null
            ELSE Given(e, "Cancelled Date")
    /\ Given(e, "Cancelled Date") = Absent => ~IsCancelled(r.value)
    /\ r.value.estimated_tax_value
          = IF Given(e, "Estimated Tax Value") = Absent THEN 0
            ELSE NumberOf(Given(e, "Estimated Tax Value"))

\* C9 as stated: construction succeeds, with the defaults, whenever
\* "Estimated Tax Value" is absent or numeric-like, and fails with a
\* ValueError whenever it is present and not numeric-like.
C9_ValueErrorOnly ==
    (last.op = "from_dict" /\ last.a1.obj) =>
        LET tax == Given(last.a1, "Estimated Tax Value")
        IN  IF tax = Absent \/ tax \in NumericLike
            THEN BuildsRecord(last.a1, last.res)
            ELSE last.res = Raise("ValueError")

\* C9 amended: construction succeeds, with the defaults, whenever
\* "Estimated Tax Value" is absent or numeric-like; when it is present and
\* not numeric-like construction fails and gives no record, with a
\* ValueError for a string (the empty one included) and a TypeError for
\* null.
C9_Construction ==
    (last.op = "from_dict" /\ last.a1.obj) =>
        LET tax == Given(last.a1, "Estimated Tax Value")
        IN  IF tax = Absent \/ tax \in NumericLike
            THEN BuildsRecord(last.a1, last.res)
            ELSE last.res
                    = Raise(IF tax.t = "str" THEN "ValueError"
                            ELSE "TypeError")

\* C9 witness: a record built from a mapping with no "Cancelled Date" and
\* no "Order Number" and the tax value "2.50".
C9_Witness ==
    /\ last.op = "from_dict"
    /\ last.a1.obj
    /\ "Cancelled Date" \notin DOMAIN last.a1.m
    /\ "Order Number" \notin DOMAIN last.a1.m
    /\ Given(last.a1, "Estimated Tax Value") = Tax250
    /\ last.res.ok
    /\ last.res.value.cancelled_date = Null
    /\ last.res.value.estimated_tax_value = 5

====
